---- MODULE Spec2Model ----
(***************************************************************************)
(* A model of sygmail: the configuration record and its .env file          *)
(* (src/sygmail/client.py) and the command line (src/sygmail/cli.py).      *)
(*                                                                         *)
(* A Python str is a sequence of tokens.  A token is one character ("a",   *)
(* " ", "=", a quote, a line break) or an indivisible word such as a key   *)
(* name; the empty str is << >>.  Python's None is the value None below,   *)
(* which is no str.                                                        *)
(***************************************************************************)
EXTENDS Integers, Sequences, FiniteSets, TLC

VARIABLES
    file,       \* the text of the file at env_path, or NoFile
    environ,    \* os.environ restricted to the twelve names load() reads
    config,     \* the SygmailConfig of the Sygmail object, NoObject before it
    call,       \* the operation that ran last, with its arguments
    before,     \* file, config and operation as they were before that operation
    raised,     \* the exception the last operation raised, or None
    smtp,       \* the transport calls of the last operation, in order
    warned,     \* the warnings.warn messages of the last operation, in order
    scanned,    \* the paths the last operation gave to _collect_attachments
    printed     \* the lines the last operation printed

vars == <<file, environ, config, call, before, raised, smtp, warned, scanned, printed>>

---------------------------------------------------------------------------
(* Python values *)

None == <<"None">>

NoFile == <<"NoFile">>

\* bool(v) of an Optional[str]
Truthy(v) == v # None /\ v # << >>

\* Python's `a or b`
Or(a, b) == IF Truthy(a) THEN a ELSE b

\* the longest list of attachments a caller passes explicitly
MaxAttachments == 2

\* the longest credential shown by `config show`
MaxSecretLen == 6

---------------------------------------------------------------------------
(* Constants of client.py and cli.py *)

DEFAULT_SUBJECT == <<"Process Completed">>

DEFAULT_CONTENTS_TEMPLATE == <<"{script_name}", " ", "has finished running.">>

CLI_DEFAULT_CONTENTS == <<"[sygmail notification]">>

\* the fields of the dataclass, in declaration order
Fields == <<"from_addr", "app_password", "to", "subject", "contents", "attachments_path">>

FieldSet == {Fields[i] : i \in 1..Len(Fields)}

ENV_KEYS == [from_addr        |-> "SYGMAIL_FROM",
             app_password     |-> "SYGMAIL_APP_PASSWORD",
             to               |-> "SYGMAIL_TO",
             subject          |-> "SYGMAIL_SUBJECT",
             contents         |-> "SYGMAIL_CONTENTS",
             attachments_path |-> "SYGMAIL_ATTACHMENTS_PATH"]

EnvKeyValues == {ENV_KEYS[f] : f \in FieldSet}

\* str.lower() of a key name
Lower(key) ==
    CASE key = "SYGMAIL_FROM"             -> "sygmail_from"
      [] key = "SYGMAIL_APP_PASSWORD"     -> "sygmail_app_password"
      [] key = "SYGMAIL_TO"               -> "sygmail_to"
      [] key = "SYGMAIL_SUBJECT"          -> "sygmail_subject"
      [] key = "SYGMAIL_CONTENTS"         -> "sygmail_contents"
      [] key = "SYGMAIL_ATTACHMENTS_PATH" -> "sygmail_attachments_path"
      [] OTHER                            -> key

\* str.upper() of one token: lowercase and mixed-case spellings of the key
\* names, and the letters of the alphabet
UpperToken(tok) ==
    CASE tok \in {"sygmail_from", "Sygmail_From"}       -> "SYGMAIL_FROM"
      [] tok = "sygmail_app_password"                   -> "SYGMAIL_APP_PASSWORD"
      [] tok \in {"sygmail_to", "Sygmail_To"}           -> "SYGMAIL_TO"
      [] tok \in {"sygmail_subject", "Sygmail_Subject"} -> "SYGMAIL_SUBJECT"
      [] tok = "sygmail_contents"                       -> "SYGMAIL_CONTENTS"
      [] tok = "sygmail_attachments_path"               -> "SYGMAIL_ATTACHMENTS_PATH"
      [] tok = "a"                                      -> "A"
      [] tok = "b"                                      -> "B"
      [] OTHER                                          -> tok

EnvNames == EnvKeyValues \cup {Lower(k) : k \in EnvKeyValues}

\* the SygmailConfig() with every field left at its default
EmptyConfig == [f \in FieldSet |-> None]

\* config before any Sygmail object exists
NoObject == [f \in FieldSet |-> <<"NoObject">>]

---------------------------------------------------------------------------
(* str methods *)

Whitespace == {" ", "\t"}

Quotes == {"\"", "'"}

RECURSIVE LStripChars(_, _)
LStripChars(s, chars) ==
    IF s # << >> /\ Head(s) \in chars THEN LStripChars(Tail(s), chars) ELSE s

RECURSIVE RStripChars(_, _)
RStripChars(s, chars) ==
    IF s # << >> /\ s[Len(s)] \in chars
    THEN RStripChars(SubSeq(s, 1, Len(s) - 1), chars)
    ELSE s

\* s.strip(chars)
StripChars(s, chars) == RStripChars(LStripChars(s, chars), chars)

\* s.strip()
Strip(s) == StripChars(s, Whitespace)

\* the least index of tok in s, 0 when there is none
RECURSIVE IndexOf(_, _)
IndexOf(s, tok) ==
    IF s = << >> THEN 0
    ELSE IF Head(s) = tok THEN 1
    ELSE LET i == IndexOf(Tail(s), tok) IN IF i = 0 THEN 0 ELSE i + 1

\* s.splitlines(): a final line break ends the last line, it opens no new one
RECURSIVE SplitLines(_)
SplitLines(s) ==
    IF s = << >> THEN << >>
    ELSE LET i == IndexOf(s, "\n") IN
         IF i = 0 THEN <<s>>
         ELSE <<SubSeq(s, 1, i - 1)>> \o SplitLines(SubSeq(s, i + 1, Len(s)))

\* sep.join(parts)
RECURSIVE Join(_, _)
Join(parts, sep) ==
    IF parts = << >> THEN << >>
    ELSE IF Len(parts) = 1 THEN parts[1]
    ELSE parts[1] \o sep \o Join(Tail(parts), sep)

\* s.upper()
Upper(s) == [i \in 1..Len(s) |-> UpperToken(s[i])]

---------------------------------------------------------------------------
(* The .env file *)

_normalize_env_key(key) == Upper(key)

_env_key_to_field(env_key) ==
    IF \E f \in FieldSet : <<ENV_KEYS[f]>> = env_key
    THEN CHOOSE f \in FieldSet : <<ENV_KEYS[f]>> = env_key
    ELSE "None"

\* one line of the file folded into the values read so far
ReadLine(values, line) ==
    LET stripped == Strip(line)
        eq       == IndexOf(stripped, "=")
        key      == Strip(SubSeq(stripped, 1, eq - 1))
        value    == StripChars(Strip(SubSeq(stripped, eq + 1, Len(stripped))), Quotes)
        nkey     == _normalize_env_key(key)
    IN  IF stripped = << >> \/ Head(stripped) = "#" THEN values
        ELSE IF eq = 0 THEN values
        ELSE IF key = << >> THEN values
        ELSE IF \E f \in FieldSet : <<ENV_KEYS[f]>> = nkey
             THEN [values EXCEPT ![_env_key_to_field(nkey)] = value]
             ELSE values

RECURSIVE ReadLines(_, _)
ReadLines(values, lines) ==
    IF lines = << >> THEN values
    ELSE ReadLines(ReadLine(values, Head(lines)), Tail(lines))

\* the dict _read_env_file returns, a missing key shown as None (what
\* values.get(field) gives load)
_read_env_file(f) ==
    IF f = NoFile THEN EmptyConfig
    ELSE ReadLines(EmptyConfig, SplitLines(f))

\* data is the dict as the sequence of its (key, value) items
_write_env_file(data) ==
    Join([i \in 1..Len(data) |-> <<data[i][1], "=">> \o data[i][2]], <<"\n">>) \o <<"\n">>

\* a lookup that tries the lowercase name first
EnvValueLowerFirst(env, key) ==
    IF env[Lower(key)] # None THEN env[Lower(key)] ELSE env[key]

\* os.environ.get(key), then os.environ.get(key.lower())
EnvValue(env, key) ==
    IF env[key] # None THEN env[key] ELSE env[Lower(key)]

\* SygmailConfig.load
load(f, env) ==
    LET file_values == _read_env_file(f) IN
    [fld \in FieldSet |->
        IF EnvValue(env, ENV_KEYS[fld]) # None
        THEN EnvValue(env, ENV_KEYS[fld])
        ELSE file_values[fld]]

\* the dict SygmailConfig.save builds
SaveData(cfg) ==
    << <<ENV_KEYS.from_addr,    Or(cfg.from_addr, << >>)>>,
       <<ENV_KEYS.app_password, Or(cfg.app_password, << >>)>>,
       <<ENV_KEYS.to,           Or(cfg.to, << >>)>>,
       <<ENV_KEYS.subject,      Or(cfg.subject, DEFAULT_SUBJECT)>>,
       <<ENV_KEYS.contents,     Or(cfg.contents, DEFAULT_CONTENTS_TEMPLATE)>> >>
    \o (IF cfg.attachments_path # None
        THEN << <<ENV_KEYS.attachments_path, cfg.attachments_path>> >>
        ELSE << >>)

\* the file SygmailConfig.save leaves
save(cfg) == _write_env_file(SaveData(cfg))

\* SygmailConfig.reset_subject_contents
reset_subject_contents(cfg) ==
    [cfg EXCEPT !.subject = DEFAULT_SUBJECT, !.contents = DEFAULT_CONTENTS_TEMPLATE]

---------------------------------------------------------------------------
(* Inputs *)

\* the most operations one run performs on the configuration
MaxOps == 3

\* values a caller, the environment or a hand-written file may hold:
\* plain, empty, padded, quoted, and broken over two lines
Plain == <<"a">>

Other == <<"b">>

Padded == <<" ", "a">>

Quoted == <<"'", "a", "'">>

TwoLines == <<"a", "\n", "b">>

Unset == [n \in EnvNames |-> None]

\* the environments a run may start in
Environs ==
    { Unset,
      [Unset EXCEPT !["sygmail_to"] = Plain, !["SYGMAIL_SUBJECT"] = << >>],
      [Unset EXCEPT !["SYGMAIL_TO"] = Other, !["sygmail_to"] = Plain,
                    !["sygmail_app_password"] = Plain \o Other] }

\* a file written by hand: a comment, a lowercase key padded with blanks and
\* a quoted value, a line with no separator, a line with no key, a key of
\* mixed case, and no final line break
HandWritten ==
    <<"#", "a", "\n",
      " ", "sygmail_to", " ", "=", " ", "\"", "a", "\"", "\n",
      "a", "\n",
      "=", "b", "\n",
      "SYGMAIL_CONTENTS", "=", "a", "=", "b", "\n",
      "Sygmail_Subject", "=", "b">>

\* the files a run may start with
InitFiles ==
    { NoFile,
      HandWritten,
      save([EmptyConfig EXCEPT !.from_addr = Plain, !.app_password = Other \o Plain,
                               !.subject = Other, !.attachments_path = <<"d">>]) }

Only(f, v) == [EmptyConfig EXCEPT ![f] = v]

\* the records a caller constructs a Sygmail with
Records ==
    { EmptyConfig,
      Only("from_addr", << >>),
      Only("to", Padded),
      Only("subject", Quoted),
      Only("contents", TwoLines),
      Only("attachments_path", << >>),
      [f \in FieldSet |-> Plain] }

NoArgs == [from_addr |-> None, from_ |-> None, app_password |-> None, to |-> None,
           subject |-> None, contents |-> None, attachments_path |-> None]

\* the keyword arguments of configure the model calls it with
ConfigureArgs ==
    { NoArgs,
      [NoArgs EXCEPT !.subject = << >>],
      [NoArgs EXCEPT !.contents = Quoted],
      [NoArgs EXCEPT !.from_ = Plain],
      [NoArgs EXCEPT !.from_addr = Other, !.from_ = Plain],
      [NoArgs EXCEPT !.app_password = Plain \o Other, !.attachments_path = <<"d">>] }

\* persist as the caller wrote it: left out, True or False
Omitted == "omitted"

PersistArgs == {Omitted, "True", "False"}

\* the default of the persist parameter
PersistDefault == TRUE

\* a configure that saves whatever persist says
PersistAlways(p) == TRUE

\* the value the parameter persist has in the call
Persist(p) == IF p = Omitted THEN PersistDefault ELSE p = "True"

---------------------------------------------------------------------------
(* Sygmail: construction and configuration *)

Snapshot == [file |-> file, config |-> config, op |-> call.op]

\* what an operation that sends nothing, warns of nothing and prints nothing leaves
Quiet ==
    /\ raised' = None
    /\ smtp' = << >>
    /\ warned' = << >>
    /\ scanned' = << >>
    /\ printed' = << >>

\* the record configure leaves in self.config
Configured(cfg, args) ==
    LET from_addr == IF args.from_addr = None /\ args.from_ # None
                     THEN args.from_ ELSE args.from_addr
    IN  [from_addr        |-> IF from_addr # None THEN from_addr ELSE cfg.from_addr,
         app_password     |-> IF args.app_password # None THEN args.app_password
                              ELSE cfg.app_password,
         to               |-> IF args.to # None THEN args.to ELSE cfg.to,
         subject          |-> IF args.subject # None THEN args.subject ELSE cfg.subject,
         contents         |-> IF args.contents # None THEN args.contents ELSE cfg.contents,
         attachments_path |-> IF args.attachments_path # None THEN args.attachments_path
                              ELSE cfg.attachments_path]

\* Sygmail(env_path=p)
Construct ==
    /\ call.n < MaxOps
    /\ config' = load(file, environ)
    /\ call' = [op |-> "construct", n |-> call.n + 1]
    /\ before' = Snapshot
    /\ Quiet
    /\ UNCHANGED <<file, environ>>

\* Sygmail(config=r, env_path=p)
ConstructWith(r) ==
    /\ call.n < MaxOps
    /\ config = NoObject
    /\ config' = r
    /\ call' = [op |-> "construct_with", n |-> call.n + 1]
    /\ before' = Snapshot
    /\ Quiet
    /\ UNCHANGED <<file, environ>>

\* Sygmail.configure(**args) or Sygmail.configure(**args, persist=p)
Configure(args, p) ==
    /\ call.n < MaxOps
    /\ config # NoObject
    /\ config' = Configured(config, args)
    /\ file' = IF Persist(p) THEN save(config') ELSE file
    /\ call' = [op |-> "configure", n |-> call.n + 1, args |-> args, persist |-> p]
    /\ before' = Snapshot
    /\ Quiet
    /\ UNCHANGED environ

\* Sygmail.reset_subject_contents() or Sygmail.reset_subject_contents(persist=p)
ResetSubjectContents(p) ==
    /\ call.n < MaxOps
    /\ config # NoObject
    /\ config' = reset_subject_contents(config)
    /\ file' = IF Persist(p) THEN save(config') ELSE file
    /\ call' = [op |-> "reset", n |-> call.n + 1, persist |-> p]
    /\ before' = Snapshot
    /\ Quiet
    /\ UNCHANGED environ

\* syg.config.save(syg.env_path)
Save ==
    /\ call.n < MaxOps
    /\ config # NoObject
    /\ file' = save(config)
    /\ call' = [op |-> "save", n |-> call.n + 1]
    /\ before' = Snapshot
    /\ Quiet
    /\ UNCHANGED <<config, environ>>

\* the arguments argparse hands run_config_set: there is no --from_ flag
CliSetArgs == {a \in ConfigureArgs : a.from_ = None}

\* sygmail config set ...
run_config_set(args) ==
    /\ call.n < MaxOps
    /\ config' = Configured(load(file, environ), args)
    /\ file' = IF Persist("True") THEN save(config') ELSE file
    /\ call' = [op |-> "config_set", n |-> call.n + 1, args |-> args]
    /\ before' = Snapshot
    /\ Quiet
    /\ UNCHANGED environ

\* sygmail config reset
run_config_reset ==
    /\ call.n < MaxOps
    /\ config' = reset_subject_contents(load(file, environ))
    /\ file' = IF Persist("True") THEN save(config') ELSE file
    /\ call' = [op |-> "config_reset", n |-> call.n + 1]
    /\ before' = Snapshot
    /\ Quiet
    /\ UNCHANGED environ

Start ==
    /\ config = NoObject
    /\ call = [op |-> "start", n |-> 0]
    /\ before = [file |-> file, config |-> NoObject, op |-> "start"]
    /\ raised = None
    /\ smtp = << >>
    /\ warned = << >>
    /\ scanned = << >>
    /\ printed = << >>

Init ==
    /\ file \in InitFiles
    /\ environ \in Environs
    /\ Start

Next ==
    \/ Construct
    \/ \E r \in Records : ConstructWith(r)
    \/ \E args \in ConfigureArgs, p \in PersistArgs : Configure(args, p)
    \/ \E p \in PersistArgs : ResetSubjectContents(p)
    \/ Save
    \/ \E args \in CliSetArgs : run_config_set(args)
    \/ run_config_reset

Spec == Init /\ [][Next]_vars

---------------------------------------------------------------------------
(* The file system send() looks at: x and y are regular files, m does not   *)
(* exist, d is a directory holding the files a and b and the directory sub  *)

X == <<"x">>

Y == <<"y">>

Missing == <<"m">>

MissingDir == <<"m", "/">>

Dir == <<"d">>

RegularFiles == {X, Y, <<"d", "/", "a">>, <<"d", "/", "b">>}

Directories == {<<".">>, Dir, <<"d", "/", "sub">>}

\* str(Path(p)): the empty path is ".", a trailing separator is dropped
PathStr(p) ==
    IF p = << >> THEN <<".">>
    ELSE IF RStripChars(p, {"/"}) = << >> THEN <<"/">>
    ELSE RStripChars(p, {"/"})

\* Path(p).is_file()
IsFile(p) == PathStr(p) \in RegularFiles

NotFile(p) == ~IsFile(p)

\* Path(p).exists()
Exists(p) == PathStr(p) \in RegularFiles \cup Directories

\* the names Path(p).iterdir() yields, in any order
Children(p) == IF PathStr(p) = Dir THEN {<<"a">>, <<"b">>, <<"sub">>} ELSE {}

\* the orders iterdir() may yield the children of the directories in
DirOrders ==
    {o \in [1..3 -> Children(Dir)] : \A i, j \in 1..3 : i # j => o[i] # o[j]}

---------------------------------------------------------------------------
(* Attachments *)

NonEmpty(p) == p # << >>

WarningPrefix == <<"missing attachments ignored: ">>

\* a warning that names every path it is given, the empty ones too
WarnEveryMissing(paths) ==
    IF paths = << >> THEN << >>
    ELSE << WarningPrefix \o Join(paths, <<", ">>) >>

\* the messages _warn_missing_attachments gives warnings.warn: one or none
_warn_missing_attachments(paths) ==
    LET missing == SelectSeq(paths, NonEmpty) IN
    IF missing = << >> THEN << >>
    ELSE << WarningPrefix \o Join(missing, <<", ">>) >>

_filter_existing_paths(paths) ==
    [existing |-> SelectSeq(paths, IsFile), missing |-> SelectSeq(paths, NotFile)]

\* the attachments argument: None, a list of paths, or a single str
AttNone == [kind |-> "None", items |-> << >>]

AttList(paths) == [kind |-> "list", items |-> paths]

AttStr(path) == [kind |-> "str", items |-> <<path>>]

\* `not attachments`
AttFalsy(att) ==
    \/ att.kind = "None"
    \/ att.kind = "list" /\ att.items = << >>
    \/ att.kind = "str" /\ att.items = << << >> >>

\* the list _normalize_attachments returns and the warnings it gives
_normalize_attachments(att) ==
    IF AttFalsy(att) THEN [list |-> << >>, warned |-> << >>]
    ELSE [list   |-> _filter_existing_paths(att.items).existing,
          warned |-> _warn_missing_attachments(_filter_existing_paths(att.items).missing)]

\* the list _collect_attachments returns and the warnings it gives, order
\* being the order iterdir() yields the directory's children in
_collect_attachments(attachments_path, order) ==
    LET path  == PathStr(attachments_path)
        child == [i \in 1..Len(order) |-> path \o <<"/">> \o order[i]]
        found == IF IsFile(path) THEN <<path>>
                 ELSE IF Children(path) = {} THEN << >>
                 ELSE SelectSeq(child, IsFile)
    IN  IF ~Exists(path)
        THEN [list |-> << >>, warned |-> _warn_missing_attachments(<<path>>)]
        ELSE [list   |-> _filter_existing_paths(found).existing,
              warned |-> _warn_missing_attachments(_filter_existing_paths(found).missing)]

\* a send that tests `not attachments` where the code tests `attachments is None`
ScansPathWhenFalsy(att, path_value) == AttFalsy(att) /\ Truthy(path_value)

\* whether send scans the attachments path
ScansPath(att, path_value) == att.kind = "None" /\ Truthy(path_value)

---------------------------------------------------------------------------
(* Sygmail.send *)

\* sys.argv[0] of the running program
Argv0 == <<"bin", "/", "job.py">>

RECURSIVE Basename(_)
Basename(p) ==
    IF IndexOf(p, "/") = 0 THEN p
    ELSE Basename(SubSeq(p, IndexOf(p, "/") + 1, Len(p)))

_get_script_name == Basename(IF Argv0 # << >> THEN Argv0 ELSE <<"script">>)

RECURSIVE Substitute(_, _)
Substitute(contents, script_name) ==
    IF contents = << >> THEN << >>
    ELSE (IF Head(contents) = "{script_name}" THEN script_name ELSE <<Head(contents)>>)
         \o Substitute(Tail(contents), script_name)

\* a lone brace makes str.format raise, and the template is returned as it is
_render_contents(contents, script_name) ==
    IF IndexOf(contents, "{script_name}") # 0
    THEN IF IndexOf(contents, "{") # 0 \/ IndexOf(contents, "}") # 0
         THEN contents
         ELSE Substitute(contents, script_name)
    ELSE contents

ResolvedFrom(cfg, args) == Or(Or(args.from_addr, args.from_), cfg.from_addr)

\* a fallback to the configured sender where the code uses the resolved one
TargetConfiguredSender(cfg, args) == Or(Or(args.to, cfg.to), cfg.from_addr)

Target(cfg, args) == Or(Or(args.to, cfg.to), ResolvedFrom(cfg, args))

SubjectValue(cfg, args) == Or(Or(args.subject, cfg.subject), DEFAULT_SUBJECT)

ContentsValue(cfg, args) ==
    _render_contents(Or(Or(args.contents, cfg.contents), DEFAULT_CONTENTS_TEMPLATE),
                     _get_script_name)

\* a validation that forgets the credential
InvalidSenderOnly(cfg, args) == ~Truthy(Or(Or(args.from_addr, args.from_), cfg.from_addr))

\* whether send raises ValueError
Invalid(cfg, args) ==
    \/ ~Truthy(ResolvedFrom(cfg, args))
    \/ ~Truthy(cfg.app_password)
    \/ ~Truthy(Target(cfg, args))

ValueError == <<"ValueError">>

\* the calls send makes on yagmail once the attachments are resolved
Transport(cfg, args, attachments_list) ==
    << [ev |-> "SMTP", user |-> ResolvedFrom(cfg, args), password |-> cfg.app_password],
       [ev |-> "send", to |-> Target(cfg, args), subject |-> SubjectValue(cfg, args),
        contents |-> ContentsValue(cfg, args),
        attachments |-> IF attachments_list # << >> THEN attachments_list ELSE None] >>

\* what send(**args) does on configuration cfg.  Further keyword arguments go
\* to yag.send as they are and decide nothing here.
send(cfg, args, order) ==
    LET given      == _normalize_attachments(args.attachments)
        path_value == Or(args.attachments_path, cfg.attachments_path)
        scans      == ScansPath(args.attachments, path_value)
        collected  == IF scans THEN _collect_attachments(path_value, order)
                      ELSE [list |-> << >>, warned |-> << >>]
    IN  IF Invalid(cfg, args)
        THEN [raised |-> ValueError, smtp |-> << >>, warned |-> << >>, scanned |-> << >>]
        ELSE [raised  |-> None,
              smtp    |-> Transport(cfg, args, given.list \o collected.list),
              warned  |-> given.warned \o collected.warned,
              scanned |-> IF scans THEN <<path_value>> ELSE << >>]

\* the orders iterdir() may yield in this call: one where nothing is listed
IterOrders(cfg, args) ==
    IF /\ ~Invalid(cfg, args)
       /\ ScansPath(args.attachments, Or(args.attachments_path, cfg.attachments_path))
       /\ Children(Or(args.attachments_path, cfg.attachments_path)) # {}
    THEN DirOrders
    ELSE {<< >>}

\* what a call of send leaves behind
Sent(r) ==
    /\ raised' = r.raised
    /\ smtp' = r.smtp
    /\ warned' = r.warned
    /\ scanned' = r.scanned
    /\ printed' = << >>

\* syg.send(**args).  send reads the configuration and writes nothing, so a
\* second send starts where the first did: the model follows the first one.
Send(args) ==
    /\ call.op = "start"
    /\ config # NoObject
    /\ \E order \in IterOrders(config, args) : Sent(send(config, args, order))
    /\ call' = [op |-> "send", args |-> args]
    /\ before' = Snapshot
    /\ UNCHANGED <<file, environ, config>>

\* args.attachments of argparse (None, or the list of the values given) as
\* run_send passes it on
_normalize_attachments_arg(raw) ==
    IF raw.kind = "None" THEN AttNone
    ELSE IF Len(raw.items) = 0 THEN AttList(<< >>)
    ELSE raw

\* the keyword arguments run_send calls send with
RunSendArgs(cli) ==
    [from_addr        |-> cli.from_addr,
     from_            |-> None,
     to               |-> cli.to,
     subject          |-> cli.subject,
     contents         |-> IF cli.contents = None THEN CLI_DEFAULT_CONTENTS ELSE cli.contents,
     attachments      |-> _normalize_attachments_arg(cli.attachments),
     attachments_path |-> cli.attachments_path]

\* sygmail send ...
run_send(cli) ==
    /\ call.op = "start"
    /\ config = NoObject
    /\ config' = load(file, environ)
    /\ \E order \in IterOrders(config', RunSendArgs(cli)) :
          Sent(send(config', RunSendArgs(cli), order))
    /\ call' = [op |-> "run_send", args |-> RunSendArgs(cli), cli |-> cli]
    /\ before' = Snapshot
    /\ UNCHANGED <<file, environ>>

---------------------------------------------------------------------------
(* Sending: inputs and specification *)

Sender == <<"s", "@", "x">>

Alias == <<"t", "@", "x">>

Recipient == <<"r", "@", "x">>

Secret == <<"p", "q", "p", "q", "p">>

Template == <<"{script_name}", " ", "a">>

\* the records a sending Sygmail is constructed with
SendConfigs ==
    { [from_addr |-> f, app_password |-> pw, to |-> t,
       subject |-> rest[1], contents |-> rest[2], attachments_path |-> rest[3]] :
        f \in {None, Sender}, pw \in {None, << >>, Secret}, t \in {None, << >>, Other},
        rest \in { <<None, None, None>>, <<Plain, Template, Dir>>,
                   <<None, Quoted, MissingDir>> } }

\* the paths a caller lists: two files, a missing one and the empty str
ListedPaths == {X, Y, Missing, << >>}

RECURSIVE SeqsUpTo(_, _)
SeqsUpTo(S, n) ==
    IF n = 0 THEN {<< >>}
    ELSE SeqsUpTo(S, n - 1) \cup
         {Append(q, x) : q \in {r \in SeqsUpTo(S, n - 1) : Len(r) = n - 1}, x \in S}

AttachmentLists == {AttList(l) : l \in SeqsUpTo(ListedPaths, MaxAttachments)}

\* the keyword arguments of send the model calls it with
SendArgs ==
    { [from_addr |-> f, from_ |-> g, to |-> t, subject |-> rest[1], contents |-> rest[2],
       attachments |-> att, attachments_path |-> rest[3]] :
        f \in {None, << >>, Alias}, g \in {None, Plain}, t \in {None, Recipient},
        rest \in { <<None, None, None>>, <<None, None, Dir>>,
                   <<Other, <<"{script_name}", "{">>, None>> },
        att \in {AttNone, AttStr(Missing)} \cup AttachmentLists }

\* the namespaces argparse hands run_send
CliSendArgs ==
    { [from_addr |-> f, to |-> t, subject |-> sc[1], contents |-> sc[2],
       attachments |-> att, attachments_path |-> ap] :
        f \in {None, Alias}, t \in {None, Recipient},
        sc \in { <<None, None>>, <<Other, None>>, <<None, Other>> },
        att \in {AttNone} \cup AttachmentLists,
        ap \in {None, X} }

\* the files and environments a sending command line may find
SendFiles ==
    { NoFile,
      save([EmptyConfig EXCEPT !.from_addr = Sender, !.app_password = Secret]),
      save([EmptyConfig EXCEPT !.from_addr = Sender, !.app_password = Secret,
                               !.subject = Plain, !.contents = Template,
                               !.attachments_path = Dir]) }

SendEnvirons ==
    { Unset,
      [Unset EXCEPT !["SYGMAIL_CONTENTS"] = Quoted, !["sygmail_subject"] = Padded,
                    !["SYGMAIL_FROM"] = Sender, !["SYGMAIL_APP_PASSWORD"] = Secret] }

InitSend ==
    /\ \/ /\ config \in SendConfigs
          /\ file = NoFile
          /\ environ = Unset
       \/ /\ config = NoObject
          /\ file \in SendFiles
          /\ environ \in SendEnvirons
    /\ call = [op |-> "start", n |-> 0]
    /\ before = [file |-> file, config |-> NoObject, op |-> "start"]
    /\ raised = None
    /\ smtp = << >>
    /\ warned = << >>
    /\ scanned = << >>
    /\ printed = << >>

NextSend ==
    \/ \E args \in SendArgs : Send(args)
    \/ \E cli \in CliSendArgs : run_send(cli)

SpecSend == InitSend /\ [][NextSend]_vars

---------------------------------------------------------------------------
(* sygmail config show *)

Mask == <<"*", "*", "*", "*">>

\* a mask that shows the last four characters of a credential of four
MaskSecretFromFour(value) ==
    IF ~Truthy(value) THEN << >>
    ELSE IF Len(value) < 4 THEN Mask
    ELSE Mask \o SubSeq(value, Len(value) - 3, Len(value))

_mask_secret(value) ==
    IF ~Truthy(value) THEN << >>
    ELSE IF Len(value) <= 4 THEN Mask
    ELSE Mask \o SubSeq(value, Len(value) - 3, Len(value))

\* print(f"{key}={value or ''}")
ShowLine(key, value) == <<key, "=">> \o Or(value, << >>)

\* the six lines run_config_show prints
ShowLines(cfg, raw) ==
    << ShowLine(ENV_KEYS.from_addr, cfg.from_addr),
       ShowLine(ENV_KEYS.app_password,
                IF ~raw THEN _mask_secret(cfg.app_password) ELSE cfg.app_password),
       ShowLine(ENV_KEYS.to, cfg.to),
       ShowLine(ENV_KEYS.subject, cfg.subject),
       ShowLine(ENV_KEYS.contents, cfg.contents),
       ShowLine(ENV_KEYS.attachments_path, cfg.attachments_path) >>

\* sygmail config show, sygmail config show --raw
run_config_show(raw) ==
    /\ call.op = "start"
    /\ config' = load(file, environ)
    /\ printed' = ShowLines(config', raw)
    /\ raised' = None
    /\ smtp' = << >>
    /\ warned' = << >>
    /\ scanned' = << >>
    /\ call' = [op |-> "config_show", raw |-> raw]
    /\ before' = Snapshot
    /\ UNCHANGED <<file, environ>>

\* the credentials shown: every str over two characters, up to MaxSecretLen long
Secrets == SeqsUpTo({"p", "q"}, MaxSecretLen)

ShowFiles ==
    { NoFile,
      save(EmptyConfig),
      save([EmptyConfig EXCEPT !.from_addr = Sender, !.app_password = Secret]) }

ShowEnvirons ==
    {Unset} \cup {[Unset EXCEPT !["SYGMAIL_APP_PASSWORD"] = pw] : pw \in Secrets}

InitShow ==
    /\ file \in ShowFiles
    /\ environ \in ShowEnvirons
    /\ Start

NextShow == \E raw \in BOOLEAN : run_config_show(raw)

SpecShow == InitShow /\ [][NextShow]_vars

---------------------------------------------------------------------------
(* Properties *)

NoEnvironment == environ = Unset

\* the transport was constructed and its send invoked
Delivered ==
    /\ Len(smtp) = 2
    /\ smtp[1].ev = "SMTP"
    /\ smtp[2].ev = "send"

IsSend == call.op \in {"send", "run_send"}

\* the sender as the claims state it: the argument if given, else the configured one
StatedSender ==
    IF Truthy(call.args.from_addr) THEN call.args.from_addr
    ELSE IF Truthy(call.args.from_) THEN call.args.from_
    ELSE config.from_addr

\* C1: with no SYGMAIL_* variable set, load after r.save returns r in all six
\* fields, an absent field still absent, except that an unset subject or body
\* comes back as the fixed default.
C1_SaveLoadRoundTrip ==
    (call.op = "construct" /\ before.op = "save" /\ NoEnvironment) =>
        /\ config.from_addr = before.config.from_addr
        /\ config.app_password = before.config.app_password
        /\ config.to = before.config.to
        /\ config.attachments_path = before.config.attachments_path
        /\ config.subject = IF before.config.subject = None THEN DEFAULT_SUBJECT
                            ELSE before.config.subject
        /\ config.contents = IF before.config.contents = None THEN DEFAULT_CONTENTS_TEMPLATE
                             ELSE before.config.contents

\* C2 as stated: a configure or reset_subject_contents call that is given no
\* persist argument (or persist=False) leaves the file as it was.
C2_NeverImplicitlyPersists ==
    (call.op \in {"configure", "reset"} /\ call.persist # "True") => file = before.file

\* C2 as amended: a configure or reset_subject_contents call leaves the file
\* as it was when it is given persist=False; with persist left out or True it
\* writes the file from the record the call leaves in memory.
C2_PersistDecides ==
    call.op \in {"configure", "reset"} =>
        /\ call.persist = "False" => file = before.file
        /\ call.persist \in {Omitted, "True"} => file = _write_env_file(SaveData(config))

C2_Witness ==
    /\ call.op = "configure"
    /\ call.persist = "False"
    /\ config # before.config
    /\ file = before.file
    /\ file # _write_env_file(SaveData(config))

\* C3: on `sygmail send` the subject and the body template are each the first
\* available of the command-line argument, the stored value of the
\* configuration and the fixed default, so a stored template reaches the
\* transport when no --contents is given.
C3_StoredValueReachesTransport ==
    (call.op = "run_send" /\ Delivered) =>
        /\ smtp[2].subject = Or(Or(call.cli.subject, config.subject), DEFAULT_SUBJECT)
        /\ smtp[2].contents =
               _render_contents(Or(Or(call.cli.contents, config.contents),
                                   DEFAULT_CONTENTS_TEMPLATE), _get_script_name)

\* C4: load returns, for each field, the exact-case environment variable when
\* it is set (the empty string included), else the lowercase one when it is
\* set, else the entry of the file, else nothing.
C4_EnvironmentOverridesFile ==
    call.op = "construct" =>
        \A f \in FieldSet :
            config[f] = IF environ[ENV_KEYS[f]] # None THEN environ[ENV_KEYS[f]]
                        ELSE IF environ[Lower(ENV_KEYS[f])] # None
                             THEN environ[Lower(ENV_KEYS[f])]
                        ELSE _read_env_file(file)[f]

C4_Witness ==
    /\ call.op = "construct"
    /\ file = HandWritten
    /\ environ["SYGMAIL_TO"] = Other
    /\ environ["sygmail_to"] = Plain
    /\ config.to = Other
    /\ config.app_password = Plain \o Other
    /\ config.subject = Other
    /\ config.from_addr = None

\* C5: a send whose sender or credential is absent or empty raises ValueError
\* with no transport constructed and nothing sent, whatever else it is given;
\* the credential handed to the transport is the configured one; the
\* transport's send is invoked at most once.
C5_ValidationPrecedesTransport ==
    IsSend =>
        /\ (~Truthy(StatedSender) \/ ~Truthy(config.app_password)) =>
               (raised = ValueError /\ smtp = << >>)
        /\ Cardinality({i \in DOMAIN smtp : smtp[i].ev = "send"}) <= 1
        /\ \A i \in DOMAIN smtp : smtp[i].ev = "SMTP" => smtp[i].password = config.app_password

C5_Witness ==
    /\ call.op = "send"
    /\ Truthy(StatedSender)
    /\ ~Truthy(config.app_password)
    /\ Truthy(call.args.to)
    /\ call.args.attachments = AttList(<<X, Y>>)
    /\ raised = ValueError
    /\ smtp = << >>

\* C6: a send given an attachment list, the empty list included, scans no
\* attachments path and attaches nothing but listed entries, so [] sends with
\* no attachments; only with no list is the path scanned; the command line
\* passes [] on as [] and a missing --attachments as None.
C6_ExplicitListWins ==
    IsSend =>
        /\ call.args.attachments.kind # "None" =>
               /\ scanned = << >>
               /\ Delivered /\ smtp[2].attachments # None =>
                      \A i \in DOMAIN smtp[2].attachments :
                          \E j \in DOMAIN call.args.attachments.items :
                              smtp[2].attachments[i] = call.args.attachments.items[j]
        /\ (call.args.attachments = AttList(<< >>) /\ raised = None) =>
               (Delivered /\ smtp[2].attachments = None)
        /\ (call.args.attachments.kind = "None" /\ raised = None) =>
               scanned = IF Truthy(Or(call.args.attachments_path, config.attachments_path))
                         THEN <<Or(call.args.attachments_path, config.attachments_path)>>
                         ELSE << >>
        /\ call.op = "run_send" =>
               /\ call.cli.attachments.kind = "None" <=> call.args.attachments.kind = "None"
               /\ call.cli.attachments = AttList(<< >>) => call.args.attachments = AttList(<< >>)

C6_Witness ==
    /\ call.op = "send"
    /\ call.args.attachments = AttList(<< >>)
    /\ call.args.attachments_path = None
    /\ config.attachments_path = Dir
    /\ Delivered
    /\ smtp[2].attachments = None
    /\ scanned = << >>

\* C7 as stated: a send that passes validation with an explicit list warns
\* exactly when at least one listed entry was filtered out.
C7_WarnsIffFiltered ==
    (IsSend /\ raised = None /\ call.args.attachments.kind = "list") =>
        (warned # << >> <=>
            \E i \in DOMAIN call.args.attachments.items :
                ~IsFile(call.args.attachments.items[i]))

\* C7 as amended: a send that passes validation invokes the transport; with an
\* explicit list it attaches exactly the listed entries that are regular
\* files, in their order, and with a path that does not exist it attaches
\* nothing; one warning names the filtered-out entries that are not the empty
\* string, joined by ", ", and there is none when every filtered-out entry is
\* the empty string.
C7_MissingNeverAborts ==
    (IsSend /\ raised # ValueError) =>
        /\ raised = None
        /\ Delivered
        /\ ~AttFalsy(call.args.attachments) =>
               LET items == call.args.attachments.items
                   kept  == SelectSeq(items, IsFile)
                   named == SelectSeq(SelectSeq(items, NotFile), NonEmpty)
               IN  /\ smtp[2].attachments = IF kept = << >> THEN None ELSE kept
                   /\ warned = IF named = << >> THEN << >>
                               ELSE << WarningPrefix \o Join(named, <<", ">>) >>
        /\ (AttFalsy(call.args.attachments) /\ call.args.attachments.kind # "None") =>
               (smtp[2].attachments = None /\ warned = << >>)
        /\ LET path == Or(call.args.attachments_path, config.attachments_path) IN
           (call.args.attachments.kind = "None" /\ Truthy(path) /\ ~Exists(path)) =>
               /\ smtp[2].attachments = None
               /\ warned = << WarningPrefix \o PathStr(path) >>

C7_Witness ==
    /\ call.op = "send"
    /\ call.args.attachments = AttList(<<Missing, X>>)
    /\ Delivered
    /\ smtp[2].attachments = <<X>>
    /\ warned = << WarningPrefix \o Missing >>

\* C8: a send with no recipient argument and no configured recipient (absent
\* or empty) hands the transport the resolved sender as recipient; a
\* recipient argument, else a configured recipient, goes first.
C8_SelfNotification ==
    (IsSend /\ Delivered) =>
        /\ smtp[1].user = StatedSender
        /\ Truthy(call.args.to) => smtp[2].to = call.args.to
        /\ (~Truthy(call.args.to) /\ Truthy(config.to)) => smtp[2].to = config.to
        /\ (~Truthy(call.args.to) /\ ~Truthy(config.to)) => smtp[2].to = smtp[1].user

C8_Witness ==
    /\ call.op = "send"
    /\ call.args.to = None
    /\ config.to = << >>
    /\ call.args.from_addr = << >>
    /\ call.args.from_ = Plain
    /\ config.from_addr = Sender
    /\ Delivered
    /\ smtp[2].to = Plain

ShownCredential == printed[2]

CredentialLabel == <<ENV_KEYS.app_password, "=">>

\* C9 as stated: without --raw every stored credential of four characters or
\* fewer is printed as the mask "****".
C9_ShortCredentialMasked ==
    (call.op = "config_show" /\ ~call.raw /\ config.app_password # None
        /\ Len(config.app_password) <= 4) =>
        ShownCredential = CredentialLabel \o Mask

\* C9 as amended: without --raw a credential that is not empty is printed as
\* "****" when it has four characters or fewer and as "****" and its last four
\* characters otherwise, and an absent or empty credential is printed as
\* nothing; with --raw the credential is printed as it is.
C9_CredentialMasked ==
    call.op = "config_show" =>
        LET pw == config.app_password IN
        /\ Len(printed) = 6
        /\ (~call.raw /\ ~Truthy(pw)) => ShownCredential = CredentialLabel
        /\ (~call.raw /\ Truthy(pw) /\ Len(pw) <= 4) =>
               ShownCredential = CredentialLabel \o Mask
        /\ (~call.raw /\ Truthy(pw) /\ Len(pw) > 4) =>
               /\ Len(ShownCredential) = Len(CredentialLabel) + 8
               /\ SubSeq(ShownCredential, 1, Len(CredentialLabel) + 4) = CredentialLabel \o Mask
               /\ \A i \in 1..4 :
                      ShownCredential[Len(CredentialLabel) + 4 + i] = pw[Len(pw) - 4 + i]
        /\ (call.raw /\ pw # None) => ShownCredential = CredentialLabel \o pw
        /\ (call.raw /\ pw = None) => ShownCredential = CredentialLabel

C9_Witness ==
    /\ call.op = "config_show"
    /\ ~call.raw
    /\ config.app_password = <<"p", "q", "q", "p", "q", "p">>
    /\ ShownCredential = CredentialLabel \o <<"*", "*", "*", "*", "q", "p", "q", "p">>

\* the argument run_config_set supplies for a field
Supplied(f) == call.args[f]

\* C10: after `sygmail config set` the file holds, for every field, the
\* supplied argument if one was given, else the field's environment variable
\* if it was set, else the value the file held before the call.
C10_MergedRecordWritten ==
    call.op = "config_set" =>
        \A f \in FieldSet :
            _read_env_file(file)[f] =
                IF Supplied(f) # None THEN Supplied(f)
                ELSE IF environ[ENV_KEYS[f]] # None THEN environ[ENV_KEYS[f]]
                ELSE IF environ[Lower(ENV_KEYS[f])] # None THEN environ[Lower(ENV_KEYS[f])]
                ELSE _read_env_file(before.file)[f]

====
